---- MODULE Spec2Model ----
(***************************************************************************)
(* Multi-level selection simulation: the Individual / Group / Simulation   *)
(* engine of src/individual.py, src/group.py and src/simulation.py.        *)
(*                                                                         *)
(* Payoffs are Python floats in the source.  Here they are exact rationals *)
(* held as integers in units of 1/Scale (1.00 = Scale, 0.01 = Scale/100).  *)
(* Scale is chosen so that every quotient the stages compute for leaf      *)
(* groups of up to 6 members is an integer.                                *)
(*                                                                         *)
(* A call of random.random() is used by the source in exactly one          *)
(* comparison, so a draw is modelled by its two extremes: "lo" is the draw *)
(* 0.0 and "hi" a draw just below 1.0.                                     *)
(*                                                                         *)
(* An object's place in the tree is its path from the root: the sequence   *)
(* of 1-based positions in the members lists.  Its identity (the address   *)
(* the constructor call allocated) is its field id: the step in which it   *)
(* was allocated (0 for construction), the number of the clone() call of   *)
(* that step, and the path at which it was created.  Layout attributes     *)
(* (x, y, width, height) are opaque to the engine and are not part of the  *)
(* state.                                                                  *)
(***************************************************************************)
EXTENDS Integers, Sequences, FiniteSets, TLC

VARIABLES
    group_sizes,        \* Simulation.group_sizes
    initial_cooperator_ratio,   \* Simulation.initial_cooperator_ratio, in hundredths
    initial_punisher_ratio,     \* Simulation.initial_punisher_ratio, in hundredths
    construction,       \* "pending" before Simulation(...) is called, "built" once it
                        \* has returned, else the name of the exception it raised
    root_group,         \* Simulation.root_group: the tree
    current_stage,      \* Simulation.current_stage: the stage cursor
    stage_connections,  \* Simulation.stage_connections
    connection_timer,   \* Simulation.connection_timer
    raised,             \* TRUE once a run_step call has raised (the caller does not catch)
    invoked,            \* history: the stage method the last run_step called on the root
    ledger,             \* history: raw amounts subtracted by the last punishment stage
    competed,           \* history: the pairs that competed in the last competition stage
    paired,             \* history: how the loops of the last competition stage
                        \* grouped the children: per group, the pairs and the child
                        \* left over
    steps,              \* history: number of run_step calls so far
    drawn,              \* history: the draws the last cooperation, learning or
                        \* mutation stage consumed, per individual
    events              \* history: number of draws so far that count for MaxEvents

vars == <<group_sizes, initial_cooperator_ratio, initial_punisher_ratio, construction,
          root_group, current_stage, stage_connections,
          connection_timer, raised, invoked, ledger, competed, paired, steps, drawn,
          events>>

---------------------------------------------------------------------------
(* Bounds of the model *)
MaxSize == 2          \* largest entry of group_sizes
MaxDepth == 3         \* largest number of hierarchy levels
MaxPopulation == 4    \* largest number of individuals in the tree
MaxSteps == 6         \* run_step calls explored
MaxCompeting == 1     \* pairs that compete in one competition stage
MaxEvents == 1        \* draws of one run that change something: an execution error
                      \* in cooperation, an adoption in learning, a mutation

---------------------------------------------------------------------------
(* Program constants *)
Scale == 900
BASELINE_PAYOFF == Scale                \* 1.0
MIN_PAYOFF == Scale \div 100            \* 0.01
MAX_PAYOFF == Scale                     \* 1.00
COOPERATION_COST == (2 * Scale) \div 10 \* 0.2
PUNISHMENT_COST == (8 * Scale) \div 10  \* 0.8
PUNISHER_COST == (2 * Scale) \div 10    \* 0.2

(* probabilities, in hundredths *)
ERROR_RATE == 5
LEARNING_RATE == 5
MIGRATION_RATE == 1
COMPETITION_CHANCE == 20
MUTATION_CHANCE == 2

(* the defaults of the constructor's ratios: 0.33 and 0.33 *)
DEFAULT_COOPERATOR_RATIO == 33
DEFAULT_PUNISHER_RATIO == 33

COOPERATOR == "C"
PUNISHER == "P"
DEFECTOR == "D"
Role == <<COOPERATOR, PUNISHER, DEFECTOR>>

(* Individual.cooperates: None until a cooperation stage writes a bool *)
None == "None"
PyTrue == "True"
PyFalse == "False"

(* the stage methods of Group *)
StageMethod == <<"stage1_cooperation", "stage2_punishment", "stage3_learning",
                 "stage4_competition", "stage5_mutation">>

---------------------------------------------------------------------------
(* random.random() *)
Draw == {"lo", "hi"}

(* random.random() < num/den, for a probability num/den in [0, 1] *)
RandomLess(u, num, den) == IF u = "lo" THEN 0 < num ELSE num >= den

(* random.random() > num/den *)
RandomGreater(u, num, den) == IF u = "lo" THEN FALSE ELSE num < den

(* random.choice(seq), pick is the draw *)
Choice(seq, pick) == seq[((pick - 1) % Len(seq)) + 1]

---------------------------------------------------------------------------
(* Sequence helpers *)
Max2(a, b) == IF a >= b THEN a ELSE b
Min2(a, b) == IF a <= b THEN a ELSE b

RECURSIVE Flatten(_)
Flatten(seqs) == IF seqs = <<>> THEN <<>> ELSE Head(seqs) \o Flatten(Tail(seqs))

RECURSIVE Product(_)
Product(s) == IF s = <<>> THEN 1 ELSE Head(s) * Product(Tail(s))

RECURSIVE Ascending(_, _, _)
(* the members of the set S of integers within from..to, in ascending order *)
Ascending(S, from, to) ==
    IF from > to THEN <<>>
    ELSE (IF from \in S THEN <<from>> ELSE <<>>) \o Ascending(S, from + 1, to)

IsPrefix(p, q) == Len(p) <= Len(q) /\ SubSeq(q, 1, Len(p)) = p

---------------------------------------------------------------------------
(* Individual *)
IndividualInit(role, id) ==
    [id |-> id, role |-> role, payoff |-> BASELINE_PAYOFF, cooperates |-> None]

IndividualClone(self, id) ==
    [IndividualInit(self.role, id) EXCEPT !.payoff = self.payoff,
                                          !.cooperates = self.cooperates]

(* the identity of the object allocated at path by the call whose own      *)
(* allocation is fresh                                                     *)
Below(fresh, i) == [fresh EXCEPT !.at = @ \o <<i>>]

(* identities of the objects of construction *)
Built(path) == [born |-> 0, serial |-> 0, at |-> path]

(* truth value of ind.cooperates: None and False are falsy *)
Truthy(v) == v = PyTrue

---------------------------------------------------------------------------
(* Group *)
GroupInit(members, level, id) == [id |-> id, members |-> members, level |-> level]

HasMembers(node) == "members" \in DOMAIN node

is_first_order(self) == self.level = 1

RECURSIVE get_all_individuals(_)
get_all_individuals(self) ==
    IF is_first_order(self) THEN self.members
    ELSE Flatten([i \in 1..Len(self.members) |-> get_all_individuals(self.members[i])])

RECURSIVE IndividualPaths(_, _)
(* the paths of get_all_individuals(self), in the same order; here is self's path *)
IndividualPaths(self, here) ==
    IF is_first_order(self) THEN [i \in 1..Len(self.members) |-> here \o <<i>>]
    ELSE Flatten([i \in 1..Len(self.members) |->
                    IndividualPaths(self.members[i], here \o <<i>>)])

RECURSIVE get_first_order_groups(_, _)
(* the paths of the first-order groups below self, in traversal order *)
get_first_order_groups(self, here) ==
    IF is_first_order(self) THEN <<here>>
    ELSE Flatten([i \in 1..Len(self.members) |->
                    IF is_first_order(self.members[i]) THEN <<here \o <<i>>>>
                    ELSE get_first_order_groups(self.members[i], here \o <<i>>)])

RECURSIVE NodeAt(_, _)
NodeAt(node, path) ==
    IF path = <<>> THEN node ELSE NodeAt(node.members[Head(path)], Tail(path))

RECURSIVE ReplaceAt(_, _, _)
ReplaceAt(node, path, new) ==
    IF path = <<>> THEN new
    ELSE [node EXCEPT !.members[Head(path)] = ReplaceAt(@, Tail(path), new)]

RECURSIVE clone(_, _)
(* lines 57 and 60 reusing the members instead of cloning them *)
clone_Shallow(self, fresh) == GroupInit(self.members, self.level, fresh)

(* fresh is the identity of the Group that line 62 allocates *)
clone(self, fresh) ==
    IF is_first_order(self)
    THEN GroupInit([i \in 1..Len(self.members) |->
                      IndividualClone(self.members[i], Below(fresh, i))],
                   self.level, fresh)
    ELSE GroupInit([i \in 1..Len(self.members) |->
                      clone(self.members[i], Below(fresh, i))],
                   self.level, fresh)

(* sanitize_payoff without line 234: the floor is forgotten *)
sanitize_payoff_NoFloor(payoff) == Min2(payoff, MAX_PAYOFF)

sanitize_payoff(payoff) == Min2(Max2(payoff, MIN_PAYOFF), MAX_PAYOFF)

---------------------------------------------------------------------------
(* Stage 1: cooperation.  cooperate_draw[path] is the random.random() of    *)
(* line 71 for the individual at path.                                     *)
(* line 72 moved under the outcome of line 71: only a successful           *)
(* cooperation is charged                                                  *)
Stage1Attempt_ChargesOnSuccess(individual, u) ==
    IF individual.role = COOPERATOR \/ individual.role = PUNISHER
    THEN [individual EXCEPT
            !.cooperates = IF RandomGreater(u, ERROR_RATE, 100) THEN PyTrue ELSE PyFalse,
            !.payoff = IF RandomGreater(u, ERROR_RATE, 100)
                       THEN @ - COOPERATION_COST ELSE @]
    ELSE [individual EXCEPT !.cooperates = PyFalse]

Stage1Attempt(individual, u) ==
    IF individual.role = COOPERATOR \/ individual.role = PUNISHER
    THEN [individual EXCEPT
            !.cooperates = IF RandomGreater(u, ERROR_RATE, 100) THEN PyTrue ELSE PyFalse,
            !.payoff = @ - COOPERATION_COST]
    ELSE [individual EXCEPT !.cooperates = PyFalse]

(* lines 76-77 counting every member that cooperates, Punishers included *)
CoopGain_CountsPunishers(members) ==
    LET k == Cardinality({i \in 1..Len(members) : Truthy(members[i].cooperates)})
    IN  ((10 * k + 6 * k) * Scale) \div (10 * Len(members) * 3)

(* no_of_cooperators / len(members) / 3, with no_of_cooperators = k + 0.6 k *)
CoopGain(members) ==
    LET k == Cardinality({i \in 1..Len(members) :
                            members[i].role = COOPERATOR /\ Truthy(members[i].cooperates)})
    IN  ((10 * k + 6 * k) * Scale) \div (10 * Len(members) * 3)

RECURSIVE stage1_cooperation(_, _, _)
stage1_cooperation(self, here, cooperate_draw) ==
    IF is_first_order(self)
    THEN LET attempted == [i \in 1..Len(self.members) |->
                             Stage1Attempt(self.members[i], cooperate_draw[here \o <<i>>])]
             coop_gain == CoopGain(attempted)
         IN  [self EXCEPT !.members =
                [i \in 1..Len(attempted) |->
                   [attempted[i] EXCEPT !.payoff = sanitize_payoff(@ + coop_gain)]]]
    ELSE [self EXCEPT !.members =
            [i \in 1..Len(self.members) |->
               stage1_cooperation(self.members[i], here \o <<i>>, cooperate_draw)]]

---------------------------------------------------------------------------
(* Stage 2: punishment *)
Punishers(members) ==
    Ascending({i \in 1..Len(members) : members[i].role = PUNISHER}, 1, Len(members))

(* line 97 selecting by role instead of by the cooperates flag *)
Defectors_ByRole(members) ==
    Ascending({i \in 1..Len(members) : members[i].role = DEFECTOR}, 1, Len(members))

Defectors(members) ==
    Ascending({i \in 1..Len(members) : ~Truthy(members[i].cooperates)}, 1, Len(members))

(* line 106 without the division by the number of defectors *)
PunishOne_Undivided(st, punisher, defector, n) ==
    LET punisher_cost_per_defector == PUNISHER_COST \div n
        punishment_per_defector == PUNISHMENT_COST
        m1 == [st.members EXCEPT ![punisher].payoff = @ - punisher_cost_per_defector]
        m2 == [m1 EXCEPT ![defector].payoff = @ - punishment_per_defector]
        m3 == [m2 EXCEPT ![punisher].payoff = sanitize_payoff(@)]
        c1 == [st.charged EXCEPT ![punisher].paid = @ + punisher_cost_per_defector]
    IN  [members |-> [m3 EXCEPT ![defector].payoff = sanitize_payoff(@)],
         charged |-> [c1 EXCEPT ![defector].suffered = @ + punishment_per_defector]]

(* lines 105-114 for one punisher and one defector, n = len(defectors);    *)
(* charged keeps, per member, the raw amounts of lines 110 and 111         *)
PunishOne(st, punisher, defector, n) ==
    LET punisher_cost_per_defector == PUNISHER_COST \div n
        punishment_per_defector == PUNISHMENT_COST \div n
        m1 == [st.members EXCEPT ![punisher].payoff = @ - punisher_cost_per_defector]
        m2 == [m1 EXCEPT ![defector].payoff = @ - punishment_per_defector]
        m3 == [m2 EXCEPT ![punisher].payoff = sanitize_payoff(@)]
        c1 == [st.charged EXCEPT ![punisher].paid = @ + punisher_cost_per_defector]
    IN  [members |-> [m3 EXCEPT ![defector].payoff = sanitize_payoff(@)],
         charged |-> [c1 EXCEPT ![defector].suffered = @ + punishment_per_defector]]

RECURSIVE PunishLoop(_, _, _)
(* the loops of lines 100-114 over targets, a sequence of <<punisher, defector>> *)
PunishLoop(st, targets, n) ==
    IF targets = <<>> THEN st
    ELSE PunishLoop(PunishOne(st, Head(targets)[1], Head(targets)[2], n),
                    Tail(targets), n)

(* the <<punisher, defector>> positions in the order the loops visit them *)
PunishTargets(members) ==
    LET punishers == Punishers(members)
        defectors == Defectors(members)
    IN  Flatten([p \in 1..Len(punishers) |->
                   [d \in 1..Len(defectors) |-> <<punishers[p], defectors[d]>>]])

(* stage2_punishment of the first-order group at here *)
PunishLeaf(state, here) ==
    LET leaf == NodeAt(state.group, here)
        targets == PunishTargets(leaf.members)
        n == Len(Defectors(leaf.members))
        done == PunishLoop([members |-> leaf.members,
                            charged |-> [i \in 1..Len(leaf.members) |->
                                           [who |-> here \o <<i>>, paid |-> 0,
                                            suffered |-> 0]]],
                           targets, n)
    IN  [group |-> ReplaceAt(state.group, here, [leaf EXCEPT !.members = done.members]),
         connections |-> state.connections \o
            [t \in 1..Len(targets) |->
               <<here \o <<targets[t][1]>>, here \o <<targets[t][2]>>>>],
         ledger |-> state.ledger \o done.charged]

RECURSIVE PunishGroups(_, _)
(* lines 118-119: the first-order groups at paths, one after the other *)
PunishGroups(state, paths) ==
    IF paths = <<>> THEN state
    ELSE PunishGroups(PunishLeaf(state, Head(paths)), Tail(paths))

stage2_punishment(self) ==
    PunishGroups([group |-> self, connections |-> <<>>, ledger |-> <<>>],
                 get_first_order_groups(self, <<>>))

---------------------------------------------------------------------------
(* Simulation._create_hierarchy.  role_draw[path] is the random.random()   *)
(* of line 67, in hundredths, for the individual created at path.          *)
InitialRole(rand) ==
    IF rand < initial_cooperator_ratio THEN COOPERATOR
    ELSE IF rand < initial_cooperator_ratio + initial_punisher_ratio THEN PUNISHER
    ELSE DEFECTOR

RoleRand == {0, 50, 99}

RECURSIVE create_hierarchy(_, _, _, _)
(* line 82 passing the level of the subgroups as the level of the new group *)
create_hierarchy_SubgroupLevel(sizes, level, here, role_draw) ==
    IF level = 1
    THEN GroupInit([i \in 1..sizes[1] |->
                      IndividualInit(InitialRole(role_draw[here \o <<i>>]),
                                     Built(here \o <<i>>))],
                   1, Built(here))
    ELSE GroupInit([i \in 1..sizes[level] |->
                      create_hierarchy(sizes, level - 1, here \o <<i>>, role_draw)],
                   level - 1, Built(here))

create_hierarchy(sizes, level, here, role_draw) ==
    IF level = 1
    THEN GroupInit([i \in 1..sizes[1] |->
                      IndividualInit(InitialRole(role_draw[here \o <<i>>]),
                                     Built(here \o <<i>>))],
                   1, Built(here))
    ELSE GroupInit([i \in 1..sizes[level] |->
                      create_hierarchy(sizes, level - 1, here \o <<i>>, role_draw)],
                   level, Built(here))

RECURSIVE PathsDown(_, _, _)
(* the paths of length depth below a group of the given level of a tree    *)
(* built from sizes                                                        *)
PathsDown(sizes, level, depth) ==
    IF depth = 0 THEN {<<>>}
    ELSE {<<i>> \o p : i \in 1..sizes[level], p \in PathsDown(sizes, level - 1, depth - 1)}

(* the configurations explored: non-empty lists of positive sizes *)
Configs ==
    {s \in UNION {[1..d -> 1..MaxSize] : d \in 1..MaxDepth} :
        Product(s) <= MaxPopulation}

---------------------------------------------------------------------------
(* Stage 3: learning.  learn_draw[path] holds the draws of lines 136-157   *)
(* for the individual at path: migrate (136), pick_group (142),            *)
(* pick_individual (144 or 151), adopt (157).  The draws of line 133 feed  *)
(* a list that is never read.                                              *)
(* line 147 without the filter: the individual is among its own partners *)
LearnOne_SelfIncluded(st, first_order_groups, group_idx, idx, d) ==
    LET here == first_order_groups[group_idx]
        group == NodeAt(st.group, here)
        individual == group.members[idx]
        migrate == RandomLess(d.migrate, MIGRATION_RATE, 100)
        other_groups == Ascending({i \in 1..Len(first_order_groups) : i # group_idx},
                                  1, Len(first_order_groups))
        other_individuals == [i \in 1..Len(group.members) |-> i]
        skip == IF migrate THEN other_groups = <<>> ELSE other_individuals = <<>>
        chosen_path ==
            IF migrate
            THEN LET other_group == first_order_groups[Choice(other_groups, d.pick_group)]
                     n == Len(NodeAt(st.group, other_group).members)
                 IN  other_group \o <<Choice([i \in 1..n |-> i], d.pick_individual)>>
            ELSE here \o <<Choice(other_individuals, d.pick_individual)>>
        chosen_individual == NodeAt(st.group, chosen_path)
        p_i == Max2(individual.payoff, MIN_PAYOFF)
        p_c == Max2(chosen_individual.payoff, MIN_PAYOFF)
    IN  IF skip THEN st
        ELSE IF RandomLess(d.adopt, p_c, p_c + p_i)
        THEN [group |-> ReplaceAt(st.group, here \o <<idx>>,
                                  [individual EXCEPT !.role = chosen_individual.role]),
              connections |-> Append(st.connections, <<here \o <<idx>>, chosen_path>>)]
        ELSE st

(* line 138 without the filter: the individual's own group is among the    *)
(* groups it can migrate to                                                *)
LearnOne_OwnGroupIncluded(st, first_order_groups, group_idx, idx, d) ==
    LET here == first_order_groups[group_idx]
        group == NodeAt(st.group, here)
        individual == group.members[idx]
        migrate == RandomLess(d.migrate, MIGRATION_RATE, 100)
        other_groups == [i \in 1..Len(first_order_groups) |-> i]
        other_individuals == Ascending({i \in 1..Len(group.members) : i # idx},
                                       1, Len(group.members))
        skip == IF migrate THEN other_groups = <<>> ELSE other_individuals = <<>>
        chosen_path ==
            IF migrate
            THEN LET other_group == first_order_groups[Choice(other_groups, d.pick_group)]
                     n == Len(NodeAt(st.group, other_group).members)
                 IN  other_group \o <<Choice([i \in 1..n |-> i], d.pick_individual)>>
            ELSE here \o <<Choice(other_individuals, d.pick_individual)>>
        chosen_individual == NodeAt(st.group, chosen_path)
        p_i == Max2(individual.payoff, MIN_PAYOFF)
        p_c == Max2(chosen_individual.payoff, MIN_PAYOFF)
    IN  IF skip THEN st
        ELSE IF RandomLess(d.adopt, p_c, p_c + p_i)
        THEN [group |-> ReplaceAt(st.group, here \o <<idx>>,
                                  [individual EXCEPT !.role = chosen_individual.role]),
              connections |-> Append(st.connections, <<here \o <<idx>>, chosen_path>>)]
        ELSE st

LearnOne(st, first_order_groups, group_idx, idx, d) ==
    LET here == first_order_groups[group_idx]
        group == NodeAt(st.group, here)
        individual == group.members[idx]
        migrate == RandomLess(d.migrate, MIGRATION_RATE, 100)
        other_groups == Ascending({i \in 1..Len(first_order_groups) : i # group_idx},
                                  1, Len(first_order_groups))
        other_individuals == Ascending({i \in 1..Len(group.members) : i # idx},
                                       1, Len(group.members))
        skip == IF migrate THEN other_groups = <<>> ELSE other_individuals = <<>>
        chosen_path ==
            IF migrate
            THEN LET other_group == first_order_groups[Choice(other_groups, d.pick_group)]
                     n == Len(NodeAt(st.group, other_group).members)
                 IN  other_group \o <<Choice([i \in 1..n |-> i], d.pick_individual)>>
            ELSE here \o <<Choice(other_individuals, d.pick_individual)>>
        chosen_individual == NodeAt(st.group, chosen_path)
        p_i == Max2(individual.payoff, MIN_PAYOFF)
        p_c == Max2(chosen_individual.payoff, MIN_PAYOFF)
    IN  IF skip THEN st
        ELSE IF RandomLess(d.adopt, p_c, p_c + p_i)
        THEN [group |-> ReplaceAt(st.group, here \o <<idx>>,
                                  [individual EXCEPT !.role = chosen_individual.role]),
              connections |-> Append(st.connections, <<here \o <<idx>>, chosen_path>>)]
        ELSE st

RECURSIVE LearnLoop(_, _, _, _)
(* lines 132-159 over todo, the <<group_idx, idx>> positions in loop order *)
LearnLoop(st, first_order_groups, todo, learn_draw) ==
    IF todo = <<>> THEN st
    ELSE LET group_idx == Head(todo)[1]
             idx == Head(todo)[2]
         IN  LearnLoop(LearnOne(st, first_order_groups, group_idx, idx,
                                learn_draw[first_order_groups[group_idx] \o <<idx>>]),
                       first_order_groups, Tail(todo), learn_draw)

RECURSIVE stage3_learning(_, _, _)
RECURSIVE Stage3Members(_, _, _, _)
(* the level test of line 127 written as level >= 2: a group above level 2 *)
(* learns across all the first-order groups below it                       *)
stage3_learning_AtAnyLevel(st, here, learn_draw) ==
    LET self == NodeAt(st.group, here)
    IN  IF self.level >= 2
        THEN LET first_order_groups == get_first_order_groups(self, here)
                 todo == Flatten([g \in 1..Len(first_order_groups) |->
                            [i \in 1..Len(NodeAt(st.group, first_order_groups[g]).members)
                               |-> <<g, i>>]])
             IN  LearnLoop(st, first_order_groups, todo, learn_draw)
        ELSE IF self.level > 2
        THEN Stage3Members(st, here, 1, learn_draw)
        ELSE st

(* st is [group |-> the whole tree, connections]; the method runs on the   *)
(* group at here                                                           *)
stage3_learning(st, here, learn_draw) ==
    LET self == NodeAt(st.group, here)
    IN  IF self.level = 2
        THEN LET first_order_groups == get_first_order_groups(self, here)
                 todo == Flatten([g \in 1..Len(first_order_groups) |->
                            [i \in 1..Len(NodeAt(st.group, first_order_groups[g]).members)
                               |-> <<g, i>>]])
             IN  LearnLoop(st, first_order_groups, todo, learn_draw)
        ELSE IF self.level > 2
        THEN Stage3Members(st, here, 1, learn_draw)
        ELSE st

(* lines 164-168: the subgroups from position i on *)
Stage3Members(st, here, i, learn_draw) ==
    IF i > Len(NodeAt(st.group, here).members) THEN st
    ELSE Stage3Members(stage3_learning(st, here \o <<i>>, learn_draw),
                       here, i + 1, learn_draw)

---------------------------------------------------------------------------
(* Stage 4: competition *)
RECURSIVE clone_coordinates(_, _)
(* TRUE when the call raises: line 245 reads .members of winner_clone,     *)
(* which an Individual does not have (AttributeError); line 247 indexes    *)
(* winner_clone.members (IndexError when it is shorter)                    *)
clone_coordinates(loser, winner_clone) ==
    IF ~HasMembers(winner_clone) THEN TRUE
    ELSE \E i \in 1..Len(loser.members) :
            \/ i > Len(winner_clone.members)
            \/ clone_coordinates(loser.members[i], winner_clone.members[i])

CooperationCount(individuals) ==
    Cardinality({i \in 1..Len(individuals) :
                   individuals[i].role \in {COOPERATOR, PUNISHER}})

(* the loser taken out of self.members before clone_coordinates is called, *)
(* to be put back as the clone afterwards                                  *)
CompetePair_RemovesLoserFirst(st, here, group1, group2, u_win) ==
    LET self == NodeAt(st.group, here)
        g1_individuals == get_all_individuals(self.members[group1])
        g2_individuals == get_all_individuals(self.members[group2])
        k1 == CooperationCount(g1_individuals)
        k2 == CooperationCount(g2_individuals)
        n1 == Len(g1_individuals)
        n2 == Len(g2_individuals)
        group1_wins == RandomLess(u_win, n1 * n2 + k1 * n2 - k2 * n1, 2 * n1 * n2)
        winner == IF group1_wins THEN group1 ELSE group2
        loser == IF group1_wins THEN group2 ELSE group1
        winner_clone == clone(self.members[winner],
                              [born |-> st.step, serial |-> Len(st.competed) + 1,
                               at |-> <<>>])
        loser_index == loser
        without == [self EXCEPT !.members =
                      SubSeq(@, 1, loser_index - 1) \o SubSeq(@, loser_index + 1, Len(@))]
        entry == [parent |-> here, group1 |-> group1, group2 |-> group2,
                  winner |-> winner, loser |-> loser, clone |-> winner_clone]
    IN  IF clone_coordinates(self.members[loser], winner_clone)
        THEN [st EXCEPT !.group = ReplaceAt(@, here, without),
                        !.raised = TRUE, !.competed = Append(@, entry)]
        ELSE [st EXCEPT !.group = ReplaceAt(@, here \o <<loser_index>>, winner_clone),
                        !.connections = Append(@, <<here \o <<winner>>, here \o <<loser>>>>),
                        !.competed = Append(@, entry)]

(* lines 184-219 for the pair at positions group1, group2 of self.members; *)
(* st is [group |-> the whole tree, connections, competed, paired, raised,  *)
(* step]; step is the number of this run_step call                         *)
CompetePair(st, here, group1, group2, u_win) ==
    LET self == NodeAt(st.group, here)
        g1_individuals == get_all_individuals(self.members[group1])
        g2_individuals == get_all_individuals(self.members[group2])
        k1 == CooperationCount(g1_individuals)
        k2 == CooperationCount(g2_individuals)
        n1 == Len(g1_individuals)
        n2 == Len(g2_individuals)
        (* win_prob = 0.5 + (k1/n1 - k2/n2) / 2 *)
        group1_wins == RandomLess(u_win, n1 * n2 + k1 * n2 - k2 * n1, 2 * n1 * n2)
        winner == IF group1_wins THEN group1 ELSE group2
        loser == IF group1_wins THEN group2 ELSE group1
        winner_clone == clone(self.members[winner],
                              [born |-> st.step, serial |-> Len(st.competed) + 1,
                               at |-> <<>>])
        loser_index == loser
        entry == [parent |-> here, group1 |-> group1, group2 |-> group2,
                  winner |-> winner, loser |-> loser, clone |-> winner_clone]
    IN  IF clone_coordinates(self.members[loser], winner_clone)
        THEN [st EXCEPT !.raised = TRUE, !.competed = Append(@, entry)]
        ELSE [st EXCEPT !.group = ReplaceAt(@, here \o <<loser_index>>, winner_clone),
                        !.connections = Append(@, <<here \o <<winner>>, here \o <<loser>>>>),
                        !.competed = Append(@, entry)]

RECURSIVE CompeteLoop(_, _, _, _, _)
(* lines 182-219 from i on (1-based); subgroups is the shuffled order of   *)
(* the positions of self.members                                           *)
CompeteLoop(st, here, subgroups, i, d) ==
    IF i > Len(subgroups) \/ st.raised THEN st
    ELSE LET pair == (i + 1) \div 2
             (* the iteration takes subgroups[i] and, if there is one,      *)
             (* subgroups[i + 1]                                            *)
             met == [st EXCEPT !.paired = @ \cup
                       {[parent |-> here,
                         children |-> {subgroups[j] : j \in {i, i + 1} \cap
                                                          (1..Len(subgroups))}]}]
         IN  CompeteLoop(
               IF i + 1 <= Len(subgroups)
                  /\ RandomLess(d.compete[pair], COMPETITION_CHANCE, 100)
               THEN CompetePair(met, here, subgroups[i], subgroups[i + 1], d.win[pair])
               ELSE met,
               here, subgroups, i + 2, d)

RECURSIVE stage4_competition(_, _, _)
RECURSIVE Stage4Members(_, _, _, _)
(* compete_draw[path] holds, for the group at path, the shuffle of line    *)
(* 179 and, per pair, the draws of lines 183 and 200                       *)
(* line 178 without list(): random.shuffle reorders self.members itself *)
stage4_competition_ShufflesInPlace(st, here, compete_draw) ==
    LET self == NodeAt(st.group, here)
        shuffled == [self EXCEPT !.members =
                       [i \in 1..Len(self.members) |->
                          self.members[compete_draw[here].shuffle[i]]]]
    IN  IF self.level > 1
        THEN Stage4Members(
               CompeteLoop([st EXCEPT !.group = ReplaceAt(@, here, shuffled)], here,
                           [i \in 1..Len(self.members) |-> i], 1, compete_draw[here]),
               here, 1, compete_draw)
        ELSE st

stage4_competition(st, here, compete_draw) ==
    LET self == NodeAt(st.group, here)
    IN  IF self.level > 1
        THEN Stage4Members(
               CompeteLoop(st, here, compete_draw[here].shuffle, 1, compete_draw[here]),
               here, 1, compete_draw)
        ELSE st

(* lines 222-224: the subgroups from position i on *)
Stage4Members(st, here, i, compete_draw) ==
    IF st.raised \/ i > Len(NodeAt(st.group, here).members) THEN st
    ELSE Stage4Members(
           IF ~is_first_order(NodeAt(st.group, here \o <<i>>))
           THEN stage4_competition(st, here \o <<i>>, compete_draw)
           ELSE st,
           here, i + 1, compete_draw)

---------------------------------------------------------------------------
(* Stage 5: mutation *)
(* line 46 without the filter: the current role is among the new roles *)
IndividualMutate_AnyRole(self, d) ==
    IF RandomLess(d.mutate, MUTATION_CHANCE, 100)
    THEN [self EXCEPT !.role = Choice(Role, d.pick)]
    ELSE self

(* a mutation that also calls reset_payoff() *)
IndividualMutate_ResetsPayoff(self, d) ==
    IF RandomLess(d.mutate, MUTATION_CHANCE, 100)
    THEN LET new_roles == SelectSeq(Role, LAMBDA r : r # self.role)
         IN  [self EXCEPT !.role = Choice(new_roles, d.pick),
                          !.payoff = BASELINE_PAYOFF]
    ELSE self

IndividualMutate(self, d) ==
    IF RandomLess(d.mutate, MUTATION_CHANCE, 100)
    THEN LET new_roles == SelectSeq(Role, LAMBDA r : r # self.role)
         IN  [self EXCEPT !.role = Choice(new_roles, d.pick)]
    ELSE self

RECURSIVE MutateLoop(_, _, _)
MutateLoop(group, paths, mutate_draw) ==
    IF paths = <<>> THEN group
    ELSE MutateLoop(ReplaceAt(group, Head(paths),
                              IndividualMutate(NodeAt(group, Head(paths)),
                                               mutate_draw[Head(paths)])),
                    Tail(paths), mutate_draw)

stage5_mutation(self, mutate_draw) ==
    MutateLoop(self, IndividualPaths(self, <<>>), mutate_draw)

---------------------------------------------------------------------------
(* The random draws one stage consumes *)
Range(seq) == {seq[i] : i \in 1..Len(seq)}

RECURSIVE HigherOrderPaths(_, _)
(* the paths of the groups of level > 1 in or below self *)
HigherOrderPaths(self, here) ==
    IF self.level > 1
    THEN <<here>> \o Flatten([i \in 1..Len(self.members) |->
                                HigherOrderPaths(self.members[i], here \o <<i>>)])
    ELSE <<>>

RECURSIVE Assignments(_, _)
(* the functions that give every path of the sequence paths one of its     *)
(* options[path]                                                           *)
Assignments(paths, options) ==
    IF paths = <<>> THEN {<<>>}
    ELSE {(Head(paths) :> d) @@ f :
            d \in options[Head(paths)], f \in Assignments(Tail(paths), options)}

(* the sets of at most k of the paths *)
AtMost(paths, k) == {T \in SUBSET paths : Cardinality(T) <= k}

(* line 71 is reached by Cooperators and Punishers only; the draw "lo"    *)
(* is an execution error                                                   *)
CooperateDraws(root, budget) ==
    LET paths == IndividualPaths(root, <<>>)
        attempting == {p \in Range(paths) :
                         NodeAt(root, p).role \in {COOPERATOR, PUNISHER}}
    IN  {[p \in Range(paths) |-> IF p \in S THEN "lo" ELSE "hi"] :
           S \in AtMost(attempting, budget)}

NoLearn == [migrate |-> "hi", pick_group |-> 1, pick_individual |-> 1, adopt |-> "hi"]

(* the draws of an individual whose adoption draw succeeds: a partner of   *)
(* its own group, or a group of its cluster and a member of that group     *)
AdoptingDraws(root, path) ==
    LET leaf_path == SubSeq(path, 1, Len(path) - 1)
        cluster_path == SubSeq(path, 1, Len(path) - 2)
        group_size == Len(NodeAt(root, leaf_path).members)
        groups == Len(NodeAt(root, cluster_path).members)
    IN  [migrate : {"hi"}, pick_group : {1},
         pick_individual : 1..Max2(1, group_size - 1), adopt : {"lo"}]
        \cup [migrate : {"lo"}, pick_group : 1..Max2(1, groups - 1),
              pick_individual : IF groups > 1 THEN 1..group_size ELSE {1},
              adopt : {"lo"}]

LearnDraws(root, budget) ==
    LET paths == IndividualPaths(root, <<>>)
    IN  IF root.level < 2
        THEN {[p \in Range(paths) |-> NoLearn]}
        ELSE UNION {Assignments(paths,
                       [p \in Range(paths) |->
                          IF p \in S THEN AdoptingDraws(root, p) ELSE {NoLearn}]) :
                      S \in AtMost(Range(paths), budget)}

NoMutate == [mutate |-> "hi", pick |-> 1]

MutateDraws(root, budget) ==
    LET paths == IndividualPaths(root, <<>>)
        mutating == [mutate : {"lo"}, pick : 1..(Len(Role) - 1)]
    IN  UNION {Assignments(paths,
                  [p \in Range(paths) |-> IF p \in S THEN mutating ELSE {NoMutate}]) :
                 S \in AtMost(Range(paths), budget)}

(* random.shuffle of a list of n elements: the permutations of 1..n *)
Shuffles(n) == {p \in [1..n -> 1..n] : \A i, j \in 1..n : i # j => p[i] # p[j]}

(* the draw of line 200 is made only for a pair that competes, and which   *)
(* of the two is group1 is read only for a pair that competes              *)
PairDraws(n) ==
    {d \in [shuffle : Shuffles(n), compete : [1..(n \div 2) -> Draw],
            win : [1..(n \div 2) -> Draw]] :
        \A pair \in 1..(n \div 2) :
            d.compete[pair] = "hi" =>
                /\ d.win[pair] = "hi"
                /\ d.shuffle[2 * pair - 1] < d.shuffle[2 * pair]}

(* the number of pairs of the stage whose draw of line 183 is "lo" *)
Competing(compete_draw) ==
    LET RECURSIVE Sum(_)
        Sum(paths) ==
            IF paths = {} THEN 0
            ELSE LET p == CHOOSE q \in paths : TRUE
                 IN  Cardinality({pair \in DOMAIN compete_draw[p].compete :
                                    compete_draw[p].compete[pair] = "lo"})
                     + Sum(paths \ {p})
    IN  Sum(DOMAIN compete_draw)

CompeteDraws(root) ==
    LET paths == HigherOrderPaths(root, <<>>)
    IN  {compete_draw \in
            Assignments(paths,
               [p \in Range(paths) |-> PairDraws(Len(NodeAt(root, p).members))]) :
            Competing(compete_draw) <= MaxCompeting}

---------------------------------------------------------------------------
(* Simulation *)
Init ==
    /\ group_sizes \in Configs
    /\ initial_cooperator_ratio = DEFAULT_COOPERATOR_RATIO
    /\ initial_punisher_ratio = DEFAULT_PUNISHER_RATIO
    /\ construction = "built"
    /\ \E role_draw \in [PathsDown(group_sizes, Len(group_sizes), Len(group_sizes))
                           -> RoleRand] :
          root_group = create_hierarchy(group_sizes, Len(group_sizes), <<>>, role_draw)
    /\ current_stage = 0
    /\ stage_connections = <<>>
    /\ connection_timer = 0
    /\ raised = FALSE
    /\ invoked = "none"
    /\ ledger = <<>>
    /\ competed = <<>>
    /\ paired = {}
    /\ steps = 0
    /\ drawn = <<>>
    /\ events = 0

(* line 167 *)
NextStage(stage) == (stage + 1) % 5

(* lines 169-178: the stage method run_step calls for a cursor value *)
StageFor(stage) == StageMethod[stage + 1]

(* run_step can be called: the Simulation exists and the program has not   *)
(* died of an exception                                                    *)
CanStep == construction = "built" /\ ~raised /\ steps < MaxSteps

(* lines 164-167 and the bookkeeping of a call that invokes method *)
Begin(method) ==
    /\ CanStep
    /\ StageFor(NextStage(current_stage)) = method
    /\ current_stage' = NextStage(current_stage)
    /\ invoked' = method
    /\ steps' = steps + 1
    /\ UNCHANGED <<group_sizes, initial_cooperator_ratio, initial_punisher_ratio,
                   construction>>

(* the stage method returned: lines 170-181 *)
Return(group, connections) ==
    /\ root_group' = group
    /\ stage_connections' = connections
    /\ connection_timer' = 30
    /\ raised' = FALSE

(* the stage method raised: lines 172-181 are not reached *)
Raise(group) ==
    /\ root_group' = group
    /\ stage_connections' = <<>>
    /\ raised' = TRUE
    /\ UNCHANGED connection_timer

StepCooperation ==
    /\ Begin("stage1_cooperation")
    /\ \E cooperate_draw \in CooperateDraws(root_group, MaxEvents - events) :
          /\ Return(stage1_cooperation(root_group, <<>>, cooperate_draw), <<>>)
          /\ drawn' = cooperate_draw
          /\ events' = events + Cardinality({p \in DOMAIN cooperate_draw :
                                               cooperate_draw[p] = "lo"})
    /\ ledger' = <<>>
    /\ competed' = <<>>
    /\ paired' = {}

StepPunishment ==
    /\ Begin("stage2_punishment")
    /\ LET result == stage2_punishment(root_group)
       IN  /\ Return(result.group, result.connections)
           /\ ledger' = result.ledger
    /\ drawn' = <<>>
    /\ UNCHANGED events
    /\ competed' = <<>>
    /\ paired' = {}

StepLearning ==
    /\ Begin("stage3_learning")
    /\ \E learn_draw \in LearnDraws(root_group, MaxEvents - events) :
          LET result == stage3_learning([group |-> root_group, connections |-> <<>>],
                                        <<>>, learn_draw)
          IN  /\ Return(result.group, result.connections)
              /\ drawn' = learn_draw
              /\ events' = events + Cardinality({p \in DOMAIN learn_draw :
                                                   learn_draw[p].adopt = "lo"})
    /\ ledger' = <<>>
    /\ competed' = <<>>
    /\ paired' = {}

StepCompetition ==
    /\ Begin("stage4_competition")
    /\ \E compete_draw \in CompeteDraws(root_group) :
          LET result == stage4_competition(
                           [group |-> root_group, connections |-> <<>>,
                            competed |-> <<>>, paired |-> {}, raised |-> FALSE,
                            step |-> steps + 1],
                           <<>>, compete_draw)
          IN  /\ IF result.raised THEN Raise(result.group)
                 ELSE Return(result.group, result.connections)
              /\ competed' = result.competed
              /\ paired' = result.paired
    /\ ledger' = <<>>
    /\ drawn' = <<>>
    /\ UNCHANGED events

StepMutation ==
    /\ Begin("stage5_mutation")
    /\ \E mutate_draw \in MutateDraws(root_group, MaxEvents - events) :
          /\ Return(stage5_mutation(root_group, mutate_draw), <<>>)
          /\ drawn' = mutate_draw
          /\ events' = events + Cardinality({p \in DOMAIN mutate_draw :
                                               mutate_draw[p].mutate = "lo"})
    /\ ledger' = <<>>
    /\ competed' = <<>>
    /\ paired' = {}

(* Simulation.run_step *)
run_step ==
    \/ StepCooperation
    \/ StepPunishment
    \/ StepLearning
    \/ StepCompetition
    \/ StepMutation

Next == run_step

Spec == Init /\ [][Next]_vars

---------------------------------------------------------------------------
(* Simulation(group_sizes, initial_cooperator_ratio, initial_punisher_ratio) *)
(* as a call: the arguments are chosen first, then __init__ runs.  The       *)
(* source validates none of its arguments.                                   *)

(* the size lists a caller may pass: empty, and with entries that are not  *)
(* positive                                                                *)
ConstructSizes ==
    {s \in UNION {[1..d -> (-1)..MaxSize] : d \in 0..MaxDepth} :
        Product([i \in 1..Len(s) |-> Max2(s[i], 1)]) <= MaxPopulation}

(* the ratio pairs a caller may pass: the defaults, no punishers, and a    *)
(* pair whose sum exceeds 1                                                *)
RatioChoices ==
    {<<DEFAULT_COOPERATOR_RATIO, DEFAULT_PUNISHER_RATIO>>, <<33, 0>>, <<67, 67>>}

RECURSIVE calculate_positions(_)
(* TRUE when _calculate_positions raises: a group above the first order    *)
(* with no members divides by n = 0 (line 114) or by rows = 0 (line 141)   *)
calculate_positions(group) ==
    IF is_first_order(group) THEN FALSE
    ELSE \/ Len(group.members) = 0
         \/ \E i \in 1..Len(group.members) : calculate_positions(group.members[i])

InitConstruct ==
    /\ group_sizes \in ConstructSizes
    /\ \E ratios \in RatioChoices :
          /\ initial_cooperator_ratio = ratios[1]
          /\ initial_punisher_ratio = ratios[2]
    /\ construction = "pending"
    /\ root_group = None
    /\ current_stage = 0
    /\ stage_connections = <<>>
    /\ connection_timer = 0
    /\ raised = FALSE
    /\ invoked = "none"
    /\ ledger = <<>>
    /\ competed = <<>>
    /\ paired = {}
    /\ steps = 0
    /\ drawn = <<>>
    /\ events = 0

(* Simulation.__init__: line 45 builds the tree (sizes[-1] of an empty     *)
(* list is an IndexError), line 55 lays it out                             *)
Construct ==
    /\ construction = "pending"
    /\ IF group_sizes = <<>>
       THEN /\ construction' = "IndexError"
            /\ UNCHANGED root_group
       ELSE \E role_draw \in [PathsDown(group_sizes, Len(group_sizes), Len(group_sizes))
                                -> RoleRand] :
              LET built == create_hierarchy(group_sizes, Len(group_sizes), <<>>, role_draw)
              IN  /\ root_group' = built
                  /\ construction' = IF calculate_positions(built)
                                     THEN "ZeroDivisionError" ELSE "built"
    /\ UNCHANGED <<group_sizes, initial_cooperator_ratio, initial_punisher_ratio,
                   current_stage, stage_connections, connection_timer, raised,
                   invoked, ledger, competed, paired, steps, drawn, events>>

(* what the constructor is specified to accept *)
ValidSizes(sizes) == sizes # <<>> /\ \A i \in 1..Len(sizes) : sizes[i] > 0

ValidConfiguration ==
    /\ ValidSizes(group_sizes)
    /\ initial_cooperator_ratio + initial_punisher_ratio <= 100

(* the steps are explored on the trees of valid sizes *)
StepWellFormed == ValidSizes(group_sizes) /\ run_step

NextConstruct == Construct \/ StepWellFormed

SpecConstruct == InitConstruct /\ [][NextConstruct]_vars

---------------------------------------------------------------------------
(* Vocabulary of the properties *)
Individuals == get_all_individuals(root_group)

LeafPaths == Range(get_first_order_groups(root_group, <<>>))

(* positions of the members of a first-order group with a role / a flag *)
WithRole(members, role) == {i \in 1..Len(members) : members[i].role = role}
WithFlag(members, flag) == {i \in 1..Len(members) : members[i].cooperates = flag}

(* the connections of the last stage whose source lies in the group at here *)
ConnectionsFrom(here) ==
    SelectSeq(stage_connections, LAMBDA c : IsPrefix(here, c[1]))

AllHaveRole(group, role) ==
    \A i \in 1..Len(get_all_individuals(group)) : get_all_individuals(group)[i].role = role

(* the leaf group and the level-2 group of the individual at path *)
LeafOf(path) == SubSeq(path, 1, Len(path) - 1)
ClusterOf(path) == SubSeq(path, 1, Len(path) - 2)

(* the individual at path is the source / the target of one of connections *)
IsSource(connections, path) == \E k \in 1..Len(connections) : connections[k][1] = path
IsTarget(connections, path) == \E k \in 1..Len(connections) : connections[k][2] = path

(* the draw of line 136 chose a between-group interaction *)
Migrates(d) == d.migrate = "lo"

(* a payoff clamped to [0.01, 1.00] *)
Clamped(payoff) == Min2(Max2(payoff, MIN_PAYOFF), MAX_PAYOFF)

(* (k + 0.6 k) / n / 3 *)
SharedGain(k, n) == (16 * k * Scale) \div (30 * n)

(* the number of members with role Cooperator whose flag is true *)
CooperatingCooperators(members) ==
    Cardinality(WithRole(members, COOPERATOR) \cap WithFlag(members, PyTrue))

(* the ledger entry of the individual at path *)
Charged(log, path) == CHOOSE e \in Range(log) : e.who = path

---------------------------------------------------------------------------
(* C1: every run_step call returns normally, whatever the draws; in        *)
(* particular the competition stage returns normally when a pair of        *)
(* subgroups competes and the loser is to be replaced.                     *)
C1_StepIsTotal == raised = FALSE

(* C2: after any stage, every individual has 0.01 <= payoff <= 1.00. *)
C2_PayoffBounds ==
    \A i \in 1..Len(Individuals) :
        MIN_PAYOFF <= Individuals[i].payoff /\ Individuals[i].payoff <= MAX_PAYOFF

(* a punishment stage has driven a payoff down to the floor *)
C2_Witness ==
    /\ invoked = "stage2_punishment"
    /\ \E k \in 1..Len(ledger) :
          /\ ledger[k].paid + ledger[k].suffered > BASELINE_PAYOFF - MIN_PAYOFF
          /\ NodeAt(root_group, ledger[k].who).payoff = MIN_PAYOFF

(* C3: when an all-Cooperator subgroup and an all-Defector subgroup of     *)
(* equal size compete, the Cooperator group wins for every draw and after  *)
(* the stage the Defector group's slot holds only Cooperators.             *)
C3_CooperatorsTakeTheSlot ==
    [][\A k \in 1..Len(competed') :
          LET e == competed'[k]
              g1 == NodeAt(root_group, e.parent \o <<e.group1>>)
              g2 == NodeAt(root_group, e.parent \o <<e.group2>>)
              cooperators == IF AllHaveRole(g1, COOPERATOR) THEN e.group1 ELSE e.group2
              defectors == IF AllHaveRole(g1, COOPERATOR) THEN e.group2 ELSE e.group1
          IN  (/\ Len(get_all_individuals(g1)) = Len(get_all_individuals(g2))
               /\ \/ AllHaveRole(g1, COOPERATOR) /\ AllHaveRole(g2, DEFECTOR)
                  \/ AllHaveRole(g1, DEFECTOR) /\ AllHaveRole(g2, COOPERATOR))
              => /\ e.winner = cooperators
                 /\ e.loser = defectors
                 /\ AllHaveRole(NodeAt(root_group', e.parent \o <<defectors>>), COOPERATOR)
      ]_vars

(* C4: whenever the punishment stage executes, every individual's          *)
(* cooperates flag is a boolean written by a cooperation pass, never the   *)
(* unset value of creation.  (The punishment stage does not write flags,   *)
(* so the flags after it are the flags it ran on.)                         *)
C4_CooperationBeforePunishment ==
    invoked = "stage2_punishment" =>
        \A i \in 1..Len(Individuals) : Individuals[i].cooperates # None

(* C5: each run_step advances the cursor by exactly one modulo 5, keeps it *)
(* in 0..4 and invokes the stage method of the new cursor value; run_step  *)
(* can be called indefinitely, there is no terminal state.                 *)
C5_CursorCyclesForever ==
    /\ current_stage = steps % 5
    /\ steps > 0 => invoked = StageMethod[current_stage + 1]
    /\ steps < MaxSteps => CanStep

(* C6: the number of individuals in the tree is, after every stage, the    *)
(* number it had at construction.                                          *)
C6_PopulationConserved == Len(Individuals) = Product(group_sizes)

(* a competition stage in which a pair competed has run *)
C6_Witness == invoked = "stage4_competition" /\ competed # <<>>

(* C7: the tree keeps the shape fixed at construction. *)
RECURSIVE WellShaped(_, _, _)
WellShaped(node, level, sizes) ==
    /\ HasMembers(node)
    /\ node.level = level
    /\ Len(node.members) = sizes[level]
    /\ \A i \in 1..Len(node.members) :
          IF level = 1 THEN ~HasMembers(node.members[i])
          ELSE WellShaped(node.members[i], level - 1, sizes)

C7_ShapeInvariant == WellShaped(root_group, Len(group_sizes), group_sizes)

(* a competition stage ran in a tree of three levels with several groups   *)
(* at every level above the leaves                                         *)
C7_Witness ==
    /\ invoked = "stage4_competition"
    /\ Len(group_sizes) = 3
    /\ group_sizes[2] > 1 /\ group_sizes[3] > 1

(* C8: in the punishment stage a leaf group with P Punishers and D > 0     *)
(* members whose cooperates flag is false emits exactly P x D pairs, one   *)
(* for every combination of a punisher and a non-cooperating member of     *)
(* that leaf group, and no pair joins two leaf groups.                     *)
C8_PunishmentPairs ==
    invoked = "stage2_punishment" =>
        /\ \A here \in LeafPaths :
              LET members == NodeAt(root_group, here).members
                  P == WithRole(members, PUNISHER)
                  D == WithFlag(members, PyFalse)
                  pairs == ConnectionsFrom(here)
              IN  D # {} =>
                    /\ Len(pairs) = Cardinality(P) * Cardinality(D)
                    /\ Range(pairs) = {<<here \o <<p>>, here \o <<d>>>> : p \in P, d \in D}
        /\ \A k \in 1..Len(stage_connections) :
              SubSeq(stage_connections[k][1], 1, Len(stage_connections[k][1]) - 1)
                = SubSeq(stage_connections[k][2], 1, Len(stage_connections[k][2]) - 1)

(* a leaf group with two punishers and one member whose flag is false *)
C8_Witness ==
    /\ invoked = "stage2_punishment"
    /\ \E here \in LeafPaths :
          /\ Cardinality(WithRole(NodeAt(root_group, here).members, PUNISHER)) = 2
          /\ Cardinality(WithFlag(NodeAt(root_group, here).members, PyFalse)) = 1
          /\ Len(ConnectionsFrom(here)) = 2

(* C9 as stated: in a leaf group with P punishers and D > 0 defectors,     *)
(* before clamping each punisher is charged exactly punisher_cost in total *)
(* and each defector exactly punishment_cost in total.                     *)
C9_ChargedTheFullCosts ==
    invoked = "stage2_punishment" =>
        \A here \in LeafPaths :
            LET members == NodeAt(root_group, here).members
                P == WithRole(members, PUNISHER)
                D == WithFlag(members, PyFalse)
            IN  (D # {} /\ P # {}) =>
                  /\ \A p \in P : Charged(ledger, here \o <<p>>).paid = PUNISHER_COST
                  /\ \A d \in D : Charged(ledger, here \o <<d>>).suffered = PUNISHMENT_COST

(* C9 amended: each punisher is charged exactly punisher_cost in total for *)
(* punishing, punisher_cost / D per target; each defector is charged       *)
(* punishment_cost / D by each of the P punishers, P x punishment_cost / D *)
(* in total; nobody else is charged; and the payoff after the stage is the *)
(* payoff before it less what the member was charged, floored at 0.01.     *)
C9_ChargedPerDefectorCount ==
    [][invoked' = "stage2_punishment" =>
        \A here \in LeafPaths :
            LET members == NodeAt(root_group, here).members
                P == WithRole(members, PUNISHER)
                D == WithFlag(members, PyFalse)
            IN  D # {} =>
                  \A i \in 1..Len(members) :
                     LET c == Charged(ledger', here \o <<i>>)
                     IN  /\ c.paid = IF i \in P THEN PUNISHER_COST ELSE 0
                         /\ c.suffered * Cardinality(D)
                              = IF i \in D THEN Cardinality(P) * PUNISHMENT_COST ELSE 0
                         /\ NodeAt(root_group', here \o <<i>>).payoff
                              = Max2(MIN_PAYOFF, members[i].payoff - c.paid - c.suffered)
      ]_vars

(* a leaf group with one punisher and two members whose flag is false *)
C9_Witness ==
    /\ invoked = "stage2_punishment"
    /\ \E here \in LeafPaths :
          LET members == NodeAt(root_group, here).members
          IN  /\ Cardinality(WithRole(members, PUNISHER)) = 1
              /\ Cardinality(WithFlag(members, PyFalse)) = 2
              /\ \E d \in WithFlag(members, PyFalse) :
                    Charged(ledger, here \o <<d>>).suffered = PUNISHMENT_COST \div 2

(* C10: a leaf group in which no member has cooperates = false yields no   *)
(* punishment pair and the punishment stage leaves every payoff of that    *)
(* group unchanged, however many punishers it has; the stage does not      *)
(* raise.                                                                  *)
C10_NoDefectorNoPunishment ==
    [][invoked' = "stage2_punishment" =>
        /\ ~raised'
        /\ \A here \in LeafPaths :
              LET members == NodeAt(root_group, here).members
              IN  WithFlag(members, PyFalse) = {} =>
                    /\ SelectSeq(stage_connections', LAMBDA c : IsPrefix(here, c[1])) = <<>>
                    /\ \A i \in 1..Len(members) :
                          NodeAt(root_group', here \o <<i>>).payoff = members[i].payoff
      ]_vars

(* C11: when punisher is disabled for the simulation, no individual ever   *)
(* has role Punisher, neither after construction nor after any mutation.   *)
(* The source has no flag for it; a simulation is configured without       *)
(* punishers by initial_punisher_ratio = 0.                                *)
C11_NoPunisherWhenDisabled ==
    (construction = "built" /\ initial_punisher_ratio = 0) =>
        \A i \in 1..Len(Individuals) : Individuals[i].role # PUNISHER

(* C12: construction fails with ConfigurationError, and no tree is built,  *)
(* whenever the sizes list is empty, has a non-positive entry, or the two  *)
(* ratios sum to more than 1.                                              *)
C12_InvalidConfigurationRejected ==
    (construction # "pending" /\ ~ValidConfiguration) =>
        construction = "ConfigurationError" /\ root_group = None

(* C13: in the learning stage an individual without an eligible partner is *)
(* skipped without error: the sole member of a leaf group on a             *)
(* within-group draw, and any individual on a migration draw whose level-2 *)
(* cluster has one leaf group, keeps its role and is the source of no      *)
(* connection; when no draw migrates, the member of a leaf group of size 1 *)
(* is in no connection at all.                                             *)
C13_NoPartnerIsSkipped ==
    [][invoked' = "stage3_learning" =>
        /\ ~raised'
        /\ \A p \in DOMAIN drawn' :
              LET sole == Len(NodeAt(root_group, LeafOf(p)).members) = 1
                  one_leaf == /\ Len(p) >= 2
                              /\ Len(NodeAt(root_group, ClusterOf(p)).members) = 1
              IN  /\ ((~Migrates(drawn'[p]) /\ sole) \/ (Migrates(drawn'[p]) /\ one_leaf)) =>
                        /\ NodeAt(root_group', p).role = NodeAt(root_group, p).role
                        /\ ~IsSource(stage_connections', p)
                  /\ ((\A q \in DOMAIN drawn' : ~Migrates(drawn'[q])) /\ sole) =>
                        /\ ~IsSource(stage_connections', p)
                        /\ ~IsTarget(stage_connections', p)
      ]_vars

(* the sole member of a leaf group drew a within-group interaction and an  *)
(* adoption, in a cluster that has another leaf group                      *)
C13_Witness ==
    /\ invoked = "stage3_learning"
    /\ \E p \in DOMAIN drawn :
          /\ Len(p) >= 2
          /\ Len(NodeAt(root_group, LeafOf(p)).members) = 1
          /\ Len(NodeAt(root_group, ClusterOf(p)).members) > 1
          /\ ~Migrates(drawn[p])
          /\ drawn[p].adopt = "lo"

(* C14: the hierarchy is a tree with no sharing: no Individual or Group is *)
(* reachable from the root by two paths, and the clone that competition    *)
(* makes of a winner shares no Group or Individual with that winner (nor   *)
(* holds one object twice).                                                *)
RECURSIVE Identities(_)
Identities(node) ==
    IF HasMembers(node)
    THEN <<node.id>> \o Flatten([i \in 1..Len(node.members) |-> Identities(node.members[i])])
    ELSE <<node.id>>

NoSharing(ids) == \A i, j \in 1..Len(ids) : i # j => ids[i] # ids[j]

C14_TreeWithoutSharing ==
    /\ NoSharing(Identities(root_group))
    /\ \A k \in 1..Len(competed) :
          LET e == competed[k]
              winner == NodeAt(root_group, e.parent \o <<e.winner>>)
          IN  /\ NoSharing(Identities(e.clone))
              /\ Range(Identities(e.clone)) \cap Range(Identities(winner)) = {}

(* a competition cloned a winner that holds Groups as well as Individuals *)
C14_Witness ==
    /\ invoked = "stage4_competition"
    /\ \E k \in 1..Len(competed) :
          /\ competed[k].clone.level >= 2
          /\ Len(Identities(competed[k].clone)) >= 3

(* C16: after the cooperation stage every cooperates flag is a boolean; a  *)
(* Defector has cooperates = false and is not charged cooperation_cost; a  *)
(* Cooperator or Punisher is charged cooperation_cost exactly once whether *)
(* or not its draw resulted in cooperation, and cooperates exactly when    *)
(* the draw did.                                                           *)
C16_AttemptIsCharged ==
    [][invoked' = "stage1_cooperation" =>
        \A here \in LeafPaths :
            LET before == NodeAt(root_group, here).members
                after == NodeAt(root_group', here).members
                gain == SharedGain(CooperatingCooperators(after), Len(after))
            IN  \A i \in 1..Len(before) :
                   /\ after[i].cooperates \in {PyTrue, PyFalse}
                   /\ after[i].role = before[i].role
                   /\ IF before[i].role = DEFECTOR
                      THEN /\ after[i].cooperates = PyFalse
                           /\ after[i].payoff = Clamped(before[i].payoff + gain)
                      ELSE /\ after[i].cooperates = PyTrue <=> drawn'[here \o <<i>>] = "hi"
                           /\ after[i].payoff
                                = Clamped(before[i].payoff - COOPERATION_COST + gain)
      ]_vars

(* a Cooperator or Punisher whose draw was an execution error holds the    *)
(* payoff of a charged member, between the bounds                          *)
C16_Witness ==
    /\ invoked = "stage1_cooperation"
    /\ \E p \in DOMAIN drawn :
          /\ drawn[p] = "lo"
          /\ NodeAt(root_group, p).role \in {COOPERATOR, PUNISHER}
          /\ NodeAt(root_group, p).cooperates = PyFalse
          /\ NodeAt(root_group, p).payoff > MIN_PAYOFF
          /\ NodeAt(root_group, p).payoff < MAX_PAYOFF - COOPERATION_COST

(* C17: in the cooperation stage every member of a leaf group of size n    *)
(* receives the same gain (k + 0.6 k) / n / 3, k being the number of       *)
(* members that are Cooperators and cooperate (cooperating Punishers are   *)
(* not counted); a member's payoff after the stage is its payoff minus any *)
(* cooperation cost plus this gain, clamped to [0.01, 1.00]; groups above  *)
(* the leaves only recurse.                                                *)
RECURSIVE SameFrame(_, _)
(* the groups of two trees agree in identity, level and number of members *)
SameFrame(a, b) ==
    /\ a.id = b.id
    /\ HasMembers(a) = HasMembers(b)
    /\ HasMembers(a) =>
          /\ a.level = b.level
          /\ Len(a.members) = Len(b.members)
          /\ \A i \in 1..Len(a.members) : SameFrame(a.members[i], b.members[i])

C17_SharedGain ==
    [][invoked' = "stage1_cooperation" =>
        /\ SameFrame(root_group, root_group')
        /\ \A here \in LeafPaths :
              LET before == NodeAt(root_group, here).members
                  after == NodeAt(root_group', here).members
                  n == Len(after)
                  k == Cardinality({i \in 1..n : /\ after[i].role = COOPERATOR
                                                 /\ after[i].cooperates = PyTrue})
                  cost == [i \in 1..n |-> IF before[i].role \in {COOPERATOR, PUNISHER}
                                          THEN COOPERATION_COST ELSE 0]
              IN  /\ (16 * k * Scale) % (30 * n) = 0
                  /\ \A i \in 1..n :
                        after[i].payoff
                          = Min2(Max2(before[i].payoff - cost[i] + (16 * k * Scale) \div (30 * n),
                                      MIN_PAYOFF), MAX_PAYOFF)
      ]_vars

(* a leaf group in which a Cooperator and a Punisher both cooperate, and   *)
(* whose gain shows in a payoff between the bounds                         *)
C17_Witness ==
    /\ invoked = "stage1_cooperation"
    /\ \E here \in LeafPaths :
          LET members == NodeAt(root_group, here).members
          IN  /\ WithRole(members, COOPERATOR) \cap WithFlag(members, PyTrue) # {}
              /\ WithRole(members, PUNISHER) \cap WithFlag(members, PyTrue) # {}
              /\ \E i \in 1..Len(members) :
                    members[i].payoff > MIN_PAYOFF /\ members[i].payoff < MAX_PAYOFF

(* C18: every (learner, teacher) pair of the learning stage joins two      *)
(* distinct individuals of one level-2 group, of the same leaf group on a  *)
(* within-group draw and of different leaf groups on a migration draw; an  *)
(* individual is the learner of one pair when its adoption draw succeeded  *)
(* with a partner to learn from and of none otherwise, and the roles after *)
(* the stage are the roles before it with the pairs' adoptions applied in  *)
(* order; a root of level 1 performs no learning and returns no pair.      *)
RECURSIVE Adopted(_, _)
(* the tree after every learner of connections, in order, has taken the    *)
(* role its teacher has at that moment                                     *)
Adopted(tree, connections) ==
    IF connections = <<>> THEN tree
    ELSE LET learner == Head(connections)[1]
             teacher == Head(connections)[2]
         IN  Adopted(ReplaceAt(tree, learner,
                               [NodeAt(tree, learner) EXCEPT
                                  !.role = NodeAt(tree, teacher).role]),
                     Tail(connections))

(* the individual at path has someone to learn from on the draw d *)
HasPartner(tree, path, d) ==
    /\ Len(path) >= 2
    /\ IF Migrates(d) THEN Len(NodeAt(tree, ClusterOf(path)).members) > 1
       ELSE Len(NodeAt(tree, LeafOf(path)).members) > 1

C18_LearningPairs ==
    [][invoked' = "stage3_learning" =>
        /\ \A k \in 1..Len(stage_connections') :
              LET learner == stage_connections'[k][1]
                  teacher == stage_connections'[k][2]
              IN  /\ learner \in DOMAIN drawn' /\ teacher \in DOMAIN drawn'
                  /\ learner # teacher
                  /\ ClusterOf(learner) = ClusterOf(teacher)
                  /\ NodeAt(root_group, ClusterOf(learner)).level = 2
                  /\ IF Migrates(drawn'[learner])
                     THEN LeafOf(learner) # LeafOf(teacher)
                     ELSE LeafOf(learner) = LeafOf(teacher)
        /\ \A p \in DOMAIN drawn' :
              Cardinality({k \in 1..Len(stage_connections') : stage_connections'[k][1] = p})
                = IF drawn'[p].adopt = "lo" /\ HasPartner(root_group, p, drawn'[p])
                  THEN 1 ELSE 0
        /\ \A p \in DOMAIN drawn' :
              NodeAt(root_group', p).role
                = NodeAt(Adopted(root_group, stage_connections'), p).role
        /\ root_group.level = 1 => stage_connections' = <<>> /\ root_group' = root_group
      ]_vars

(* a learner on a migration draw holds the role of its teacher, a member   *)
(* of another leaf group                                                   *)
C18_Witness ==
    /\ invoked = "stage3_learning"
    /\ \E k \in 1..Len(stage_connections) :
          /\ LeafOf(stage_connections[k][1]) # LeafOf(stage_connections[k][2])
          /\ Migrates(drawn[stage_connections[k][1]])
          /\ NodeAt(root_group, stage_connections[k][1]).role
               = NodeAt(root_group, stage_connections[k][2]).role

(* C19: in one competition-stage invocation on a group each direct child   *)
(* takes part in at most one competition; the loop takes the children in   *)
(* disjoint pairs and, when their number is odd, leaves exactly one child  *)
(* unpaired; and every slot of the group's child sequence other than the   *)
(* slot of the loser of a pair that competed holds the same object as      *)
(* before, with its level and its number of members.                       *)
Losers(log, parent) == {log[k].loser : k \in {j \in 1..Len(log) : log[j].parent = parent}}

(* the group at path lies in no slot that the stage replaced *)
NotReplaced(log, path) ==
    \A k \in 1..Len(log) : ~IsPrefix(log[k].parent \o <<log[k].loser>>, path)

C20_MutationChangesRolesOnly ==
    [][invoked' = "stage5_mutation" =>
        /\ ~raised'
        /\ stage_connections' = <<>>
        /\ SameFrame(root_group, root_group')
        /\ DOMAIN drawn' = Range(IndividualPaths(root_group, <<>>))
        /\ \A p \in DOMAIN drawn' :
              LET before == NodeAt(root_group, p)
                  after == NodeAt(root_group', p)
              IN  /\ after.role \in Range(Role)
                  /\ IF drawn'[p].mutate = "lo" THEN after.role # before.role
                     ELSE after.role = before.role
                  /\ after.payoff = before.payoff
                  /\ after.cooperates = before.cooperates
      ]_vars

(* the mutation stage ran in a tree of several individuals, of which one   *)
(* mutated and another did not                                             *)
C20_Witness ==
    /\ invoked = "stage5_mutation"
    /\ \E p, q \in DOMAIN drawn :
          drawn[p].mutate = "lo" /\ drawn[q].mutate = "hi"

(* the paths of the level-2 groups of the tree self *)
ClusterPaths(self) ==
    {p \in Range(HigherOrderPaths(self, <<>>)) : NodeAt(self, p).level = 2}

(* the roles held by the individuals below the group at here *)
RolesIn(self, here) ==
    {NodeAt(self, p).role : p \in Range(IndividualPaths(NodeAt(self, here), here))}

(* C21: payoff persists across stages and is never reset after creation:   *)
(* the learning stage and the mutation stage leave every individual's      *)
(* payoff and cooperates flag unchanged, and an individual's payoff        *)
(* changes only in the cooperation and punishment stages, or when its leaf *)
(* group lies in a slot that competition replaced by a clone, which then   *)
(* carries the winner's payoffs.                                           *)
C21_PayoffPersists ==
    [][\A p \in Range(IndividualPaths(root_group, <<>>)) :
          LET before == NodeAt(root_group, p)
              after == NodeAt(root_group', p)
          IN  /\ invoked' \in {"stage3_learning", "stage5_mutation"} =>
                    /\ after.payoff = before.payoff
                    /\ after.cooperates = before.cooperates
              /\ (after.payoff # before.payoff /\ NotReplaced(competed', p)) =>
                    invoked' \in {"stage1_cooperation", "stage2_punishment"}
              /\ \A k \in 1..Len(competed') :
                    LET slot == competed'[k].parent \o <<competed'[k].loser>>
                        from == competed'[k].parent \o <<competed'[k].winner>>
                    IN  (IsPrefix(slot, p) /\ after.payoff # before.payoff) =>
                           after.payoff
                             = NodeAt(root_group,
                                      from \o SubSeq(p, Len(slot) + 1, Len(p))).payoff
      ]_vars

(* an individual whose payoff a punishment stage lowered has mutated and   *)
(* holds a payoff below the baseline                                       *)
C21_Witness ==
    /\ invoked = "stage5_mutation"
    /\ \E p \in DOMAIN drawn :
          /\ drawn[p].mutate = "lo"
          /\ NodeAt(root_group, p).payoff < BASELINE_PAYOFF

(* C22: the learning stage never introduces a role into a level-2 cluster: *)
(* for every level-2 group, the roles its individuals hold after the stage *)
(* are among the roles its individuals held before the stage, whatever the *)
(* random draws were.                                                      *)
C22_NoRoleIntroduced ==
    [][invoked' = "stage3_learning" =>
          \A c \in ClusterPaths(root_group) :
             RolesIn(root_group', c) \subseteq RolesIn(root_group, c)
      ]_vars

(* a learning stage in which an individual adopted a role, in a tree where *)
(* another cluster holds a role that the learner's cluster does not hold   *)
C22_Witness ==
    /\ invoked = "stage3_learning"
    /\ \E k \in 1..Len(stage_connections) :
          \E c \in ClusterPaths(root_group) :
             /\ c # ClusterOf(stage_connections[k][1])
             /\ ~(RolesIn(root_group, c)
                    \subseteq RolesIn(root_group, ClusterOf(stage_connections[k][1])))

====
